---- MODULE Spec2Model ----
(***************************************************************************)
(* Event ingestion (backend/ingestion) folding issuance events into the    *)
(* relational store (backend/models), and the batch reconciliation of      *)
(* settlement records (backend/services/csd_reconciliation.py).            *)
(*                                                                         *)
(* A table is the sequence of its rows in insertion order; a row's primary *)
(* key is its position.  Python's None / SQL NULL is the empty set and a   *)
(* present value v of a nullable column or of dict.get is {v}.  The        *)
(* wall-clock columns (created_at, updated_at, committed_at, issued_at,    *)
(* settled_at) are written but never read by any handler and are left out. *)
(***************************************************************************)
EXTENDS Integers, Sequences, FiniteSets, TLC

VARIABLES
    \* backend/models: the tables, and the status of the last JsonResponse
    identifiers, offerings, investors, commitments, units_issued, settlements,
    response,
    \* CSDReconciliationService and one batch_reconcile call
    credentials,     \* the systems self.credentials has an entry for
    records,         \* the (record, mapping) pairs passed in
    max_concurrent,
    semaphore,       \* the Semaphore's free permits
    waiters,         \* the tasks queued on the Semaphore, first in first out
    task_pc,         \* per task: created, waiting, in_flight, done
    provider_did,    \* per task: what the provider does with a request of it
    task_result,     \* per task: what the coroutine returned or raised
    completion,      \* the tasks in the order they completed
    results,         \* the dict batch_reconcile returns
    batch_pc,        \* idle, gathering, returned, raised
    \* one verification: a call of reconcile_settlement or of one adapter
    call,            \* the function called and its arguments
    verdict,         \* what it returned or raised, once it has
    \* OfferingConfigured requests served at the same time
    inflight         \* per request: its payload and how far its handler is

storeVars ==
    <<identifiers, offerings, investors, commitments, units_issued, settlements,
      response>>
batchVars ==
    <<credentials, records, max_concurrent, semaphore, waiters, task_pc,
      provider_did, task_result, completion, results, batch_pc>>
verifyVars == <<call, verdict>>
concurrentVars == <<inflight>>
vars == <<storeVars, batchVars, verifyVars, concurrentVars>>

\* ------------------------------------------------------------------ values

None == {}
Some(v) == {v}
Value(opt) == CHOOSE v \in opt : TRUE
EmptyDict == <<>>

\* dict.get(key): None when the key is absent.
Get(d, key) == IF key \in DOMAIN d THEN {d[key]} ELSE None

\* dict.get(key, default)
GetDefault(d, key, default) == IF key \in DOMAIN d THEN d[key] ELSE default

\* str.lower() on a string held as the sequence of its characters.
LowerChar(c) ==
    CASE c = "A" -> "a" [] c = "B" -> "b" [] c = "C" -> "c"
      [] c = "D" -> "d" [] c = "E" -> "e" [] c = "F" -> "f"
      [] OTHER -> c

\* Mutant of Lower: the address is used as received.
LowerOmitted(str) == str

Lower(str) == [i \in DOMAIN str |-> LowerChar(str[i])]

\* ------------------------------------------------------------------ schema

IdentifierNotNull == {"internal_asset_id"}
IdentifierUnique == {"internal_asset_id"}
IdentifierColumnDefaults ==
    [isin |-> None, lei |-> None, upi |-> None, cusip |-> None,
     clearstream_id |-> None, euroclear_id |-> None]

OfferingNotNull ==
    {"internal_asset_id", "offering_type", "max_raise_amount", "lockup_period",
     "start_timestamp", "end_timestamp", "base_currency", "identifier",
     "total_committed", "total_units_issued", "is_finalized"}
OfferingUnique == {"internal_asset_id"}
OfferingColumnDefaults ==
    [total_committed |-> Some(0), total_units_issued |-> Some(0),
     is_finalized |-> Some(FALSE), finalized_at |-> None,
     last_event_tx_hash |-> None]

InvestorNotNull == {"wallet_address", "kyc_passed", "aml_passed"}
InvestorUnique == {"wallet_address"}
InvestorColumnDefaults ==
    [jurisdiction |-> None, kyc_passed |-> Some(FALSE), aml_passed |-> Some(FALSE),
     last_event_tx_hash |-> None]

CommitmentNotNull == {"investor", "amount", "currency", "payment_reference", "tx_hash"}

UnitsIssuedNotNull == {"investor", "units", "lockup_release", "tx_hash"}

SettlementRecordNotNull ==
    {"investor", "units", "settlement_system", "external_reference", "tx_hash"}

\* ------------------------------------------------------------------ ORM

\* A NOT NULL column given None: the database refuses the statement.
ViolatesNotNull(notNull, vals) ==
    \E col \in DOMAIN vals : col \in notNull /\ vals[col] = None

\* The row as stored: NOT NULL columns hold the value, nullable ones None or {v}.
StoredRow(notNull, vals) ==
    [col \in DOMAIN vals |-> IF col \in notNull THEN Value(vals[col]) ELSE vals[col]]

\* filter(col=val): val None compiles to IS NULL, which no NOT NULL column meets.
Matches(notNull, row, lookup) ==
    \A col \in DOMAIN lookup :
        IF col \in notNull
        THEN lookup[col] # None /\ row[col] = Value(lookup[col])
        ELSE row[col] = lookup[col]

Filter(table, notNull, lookup) ==
    {pk \in DOMAIN table : Matches(notNull, table[pk], lookup)}

\* Mutant of Create: a row equal to an existing one is not inserted again.
CreateUnlessPresent(table, notNull, unique, vals) ==
    IF ViolatesNotNull(notNull, vals)
    THEN [table |-> table, pk |-> 0, raised |-> TRUE]
    ELSE IF \E pk \in DOMAIN table : table[pk] = StoredRow(notNull, vals)
    THEN [table |-> table,
          pk |-> CHOOSE pk \in DOMAIN table : table[pk] = StoredRow(notNull, vals),
          raised |-> FALSE]
    ELSE [table |-> Append(table, StoredRow(notNull, vals)),
          pk |-> Len(table) + 1, raised |-> FALSE]

\* Mutant of Create: INSERT OR REPLACE that reuses the newest primary key, the
\* new row taking the place of the last one.
CreateReplacing(table, notNull, unique, vals) ==
    IF ViolatesNotNull(notNull, vals)
    THEN [table |-> table, pk |-> 0, raised |-> TRUE]
    ELSE IF table = <<>>
    THEN [table |-> <<StoredRow(notNull, vals)>>, pk |-> 1, raised |-> FALSE]
    ELSE [table |-> [table EXCEPT ![Len(table)] = StoredRow(notNull, vals)],
          pk |-> Len(table), raised |-> FALSE]

\* Manager.create(**vals): INSERT; IntegrityError on NULL or duplicate key.
Create(table, notNull, unique, vals) ==
    IF \/ ViolatesNotNull(notNull, vals)
       \/ \E col \in unique, pk \in DOMAIN table :
              table[pk][col] = Value(vals[col])
    THEN [table |-> table, pk |-> 0, raised |-> TRUE]
    ELSE [table |-> Append(table, StoredRow(notNull, vals)),
          pk |-> Len(table) + 1, raised |-> FALSE]

\* Model.save() of an existing row after setattr of vals.
Update(table, notNull, pk, vals) ==
    IF ViolatesNotNull(notNull, vals)
    THEN [table |-> table, pk |-> 0, raised |-> TRUE]
    ELSE [table |-> [table EXCEPT ![pk] = StoredRow(notNull, vals) @@ @],
          pk |-> pk, raised |-> FALSE]

\* Manager.get_or_create(**lookup)
get_or_create(table, notNull, unique, columnDefaults, lookup) ==
    LET found == Filter(table, notNull, lookup)
    IN  IF found = {}
        THEN Create(table, notNull, unique, lookup @@ columnDefaults)
        ELSE IF Cardinality(found) > 1
        THEN [table |-> table, pk |-> 0, raised |-> TRUE]
        ELSE [table |-> table, pk |-> Value(found), raised |-> FALSE]

\* Manager.update_or_create(defaults=defaults, **lookup)
update_or_create(table, notNull, unique, columnDefaults, lookup, defaults) ==
    LET found == Filter(table, notNull, lookup)
    IN  IF found = {}
        THEN Create(table, notNull, unique, lookup @@ defaults @@ columnDefaults)
        ELSE IF Cardinality(found) > 1
        THEN [table |-> table, pk |-> 0, raised |-> TRUE]
        ELSE Update(table, notNull, Value(found), defaults)

\* ------------------------------------------------------------------ handlers
\* Each handler maps (store, payload) to [store, raised]: the store its ORM
\* statements leave behind (each statement commits on its own) and whether an
\* exception left the handler.

Store ==
    [identifiers |-> identifiers, offerings |-> offerings, investors |-> investors,
     commitments |-> commitments, units_issued |-> units_issued,
     settlements |-> settlements]

Returned(s) == [store |-> s, raised |-> FALSE]
Raised(s) == [store |-> s, raised |-> TRUE]

\* The lookup and the defaults of the two update_or_create statements of
\* handle_offering_configured.
IdentifierLookup(payload) ==
    [internal_asset_id |->
         Get(GetDefault(payload, "identifiers", EmptyDict), "internal_asset_id")]

IdentifierDefaults(payload) ==
    LET identifiers_data == GetDefault(payload, "identifiers", EmptyDict)
    IN  [isin |-> Get(identifiers_data, "isin"),
         lei |-> Get(identifiers_data, "lei"),
         upi |-> Get(identifiers_data, "upi"),
         cusip |-> Get(identifiers_data, "cusip"),
         clearstream_id |-> Get(identifiers_data, "clearstream_id"),
         euroclear_id |-> Get(identifiers_data, "euroclear_id")]

OfferingLookup(payload) ==
    [internal_asset_id |->
         Get(GetDefault(payload, "identifiers", EmptyDict), "internal_asset_id")]

\* Mutant of OfferingDefaults: the Offering references Identifier.objects.first().
OfferingDefaultsFirst(payload, identifier) ==
    [offering_type |-> Get(payload, "offering_type"),
     max_raise_amount |-> Get(payload, "max_raise_amount"),
     lockup_period |-> Get(payload, "lockup_period"),
     start_timestamp |-> Get(payload, "start_timestamp"),
     end_timestamp |-> Get(payload, "end_timestamp"),
     base_currency |-> Get(payload, "base_currency"),
     identifier |-> Some(1),
     last_event_tx_hash |-> Get(payload, "transaction_hash")]

OfferingDefaults(payload, identifier) ==
    [offering_type |-> Get(payload, "offering_type"),
     max_raise_amount |-> Get(payload, "max_raise_amount"),
     lockup_period |-> Get(payload, "lockup_period"),
     start_timestamp |-> Get(payload, "start_timestamp"),
     end_timestamp |-> Get(payload, "end_timestamp"),
     base_currency |-> Get(payload, "base_currency"),
     identifier |-> Some(identifier),
     last_event_tx_hash |-> Get(payload, "transaction_hash")]

handle_offering_configured(s, payload) ==
    LET r1 == update_or_create(
                  s.identifiers, IdentifierNotNull, IdentifierUnique,
                  IdentifierColumnDefaults,
                  IdentifierLookup(payload), IdentifierDefaults(payload))
        s1 == [s EXCEPT !.identifiers = r1.table]
        r2 == update_or_create(
                  s1.offerings, OfferingNotNull, OfferingUnique,
                  OfferingColumnDefaults,
                  OfferingLookup(payload), OfferingDefaults(payload, r1.pk))
    IN  IF r1.raised THEN Raised(s)
        ELSE IF r2.raised THEN Raised(s1)
        ELSE Returned([s1 EXCEPT !.offerings = r2.table])

handle_investor_whitelisted(s, payload) ==
    IF "investor" \notin DOMAIN payload
    THEN Raised(s)  \* None has no lower()
    ELSE LET r == update_or_create(
                      s.investors, InvestorNotNull, InvestorUnique,
                      InvestorColumnDefaults,
                      [wallet_address |-> Some(Lower(payload["investor"]))],
                      [jurisdiction |-> Get(payload, "jurisdiction"),
                       kyc_passed |-> Some(GetDefault(payload, "kyc_passed", FALSE)),
                       aml_passed |-> Some(GetDefault(payload, "aml_passed", FALSE)),
                       last_event_tx_hash |-> Get(payload, "transaction_hash")])
         IN  IF r.raised THEN Raised(s)
             ELSE Returned([s EXCEPT !.investors = r.table])

\* wallet = payload.get("investor").lower(); Investor.objects.get_or_create(...)
InvestorOf(s, payload) ==
    IF "investor" \notin DOMAIN payload
    THEN [table |-> s.investors, pk |-> 0, raised |-> TRUE]
    ELSE get_or_create(s.investors, InvestorNotNull, InvestorUnique,
                       InvestorColumnDefaults,
                       [wallet_address |-> Some(Lower(payload["investor"]))])

handle_commitment_recorded(s, payload) ==
    LET r1 == InvestorOf(s, payload)
        s1 == [s EXCEPT !.investors = r1.table]
        r2 == Create(s1.commitments, CommitmentNotNull, {},
                     [investor |-> Some(r1.pk),
                      amount |-> Get(payload, "amount"),
                      currency |-> Get(payload, "currency"),
                      payment_reference |-> Get(payload, "payment_reference"),
                      tx_hash |-> Get(payload, "transaction_hash")])
    IN  IF r1.raised THEN Raised(s)
        ELSE IF r2.raised THEN Raised(s1)
        ELSE Returned([s1 EXCEPT !.commitments = r2.table])

handle_units_issued(s, payload) ==
    LET r1 == InvestorOf(s, payload)
        s1 == [s EXCEPT !.investors = r1.table]
        identifiers_data == GetDefault(payload, "identifiers", EmptyDict)
        internal_asset_id == Get(identifiers_data, "internal_asset_id")
        r2 == IF internal_asset_id # None
              THEN get_or_create(s1.identifiers, IdentifierNotNull, IdentifierUnique,
                                 IdentifierColumnDefaults,
                                 [internal_asset_id |-> internal_asset_id])
              ELSE [table |-> s1.identifiers, pk |-> 0, raised |-> FALSE]
        s2 == [s1 EXCEPT !.identifiers = r2.table]
        r3 == Create(s2.units_issued, UnitsIssuedNotNull, {},
                     [investor |-> Some(r1.pk),
                      units |-> Get(payload, "units"),
                      lockup_release |-> Get(payload, "lockup_release"),
                      isin |-> Get(identifiers_data, "isin"),
                      lei |-> Get(identifiers_data, "lei"),
                      upi |-> Get(identifiers_data, "upi"),
                      identifier |-> IF internal_asset_id # None
                                     THEN Some(r2.pk) ELSE None,
                      tx_hash |-> Get(payload, "transaction_hash")])
    IN  IF r1.raised THEN Raised(s)
        ELSE IF r2.raised THEN Raised(s1)
        ELSE IF r3.raised THEN Raised(s2)
        ELSE Returned([s2 EXCEPT !.units_issued = r3.table])

handle_settlement_recorded(s, payload) ==
    LET r1 == InvestorOf(s, payload)
        s1 == [s EXCEPT !.investors = r1.table]
        r2 == Create(s1.settlements, SettlementRecordNotNull, {},
                     [investor |-> Some(r1.pk),
                      units |-> Get(payload, "units"),
                      settlement_system |-> Get(payload, "settlement_system"),
                      external_reference |-> Get(payload, "external_reference"),
                      tx_hash |-> Get(payload, "transaction_hash")])
    IN  IF r1.raised THEN Raised(s)
        ELSE IF r2.raised THEN Raised(s1)
        ELSE Returned([s1 EXCEPT !.settlements = r2.table])

\* Mutant of handle_finalized: the totals are added to the stored ones.
handle_finalized_adding(s, payload) ==
    LET tx_hash == Get(payload, "transaction_hash")
        found == Filter(s.offerings, OfferingNotNull, [last_event_tx_hash |-> tx_hash])
        vals == [total_committed |-> Get(payload, "total_committed"),
                 total_units_issued |-> Get(payload, "total_units_issued"),
                 finalized_at |-> Get(payload, "finalized_at"),
                 is_finalized |-> Some(TRUE)]
    IN  IF found = {} THEN Returned(s)
        ELSE IF ViolatesNotNull(OfferingNotNull, vals) THEN Raised(s)
        ELSE Returned([s EXCEPT !.offerings =
                 [pk \in DOMAIN s.offerings |->
                     IF pk \in found
                     THEN [StoredRow(OfferingNotNull, vals) @@ s.offerings[pk] EXCEPT
                              !.total_committed = @ + s.offerings[pk].total_committed,
                              !.total_units_issued =
                                  @ + s.offerings[pk].total_units_issued]
                     ELSE s.offerings[pk]]])

\* Mutant of handle_finalized: the update is not filtered by the hash.
handle_finalized_unfiltered(s, payload) ==
    LET vals == [total_committed |-> Get(payload, "total_committed"),
                 total_units_issued |-> Get(payload, "total_units_issued"),
                 finalized_at |-> Get(payload, "finalized_at"),
                 is_finalized |-> Some(TRUE)]
    IN  IF s.offerings = <<>> THEN Returned(s)
        ELSE IF ViolatesNotNull(OfferingNotNull, vals) THEN Raised(s)
        ELSE Returned([s EXCEPT !.offerings =
                 [pk \in DOMAIN s.offerings |->
                     StoredRow(OfferingNotNull, vals) @@ s.offerings[pk]]])

\* Offering.objects.filter(last_event_tx_hash=tx_hash).update(...): one UPDATE
\* statement; it violates NOT NULL only if it touches a row.
handle_finalized(s, payload) ==
    LET tx_hash == Get(payload, "transaction_hash")
        found == Filter(s.offerings, OfferingNotNull, [last_event_tx_hash |-> tx_hash])
        vals == [total_committed |-> Get(payload, "total_committed"),
                 total_units_issued |-> Get(payload, "total_units_issued"),
                 finalized_at |-> Get(payload, "finalized_at"),
                 is_finalized |-> Some(TRUE)]
    IN  IF found = {} THEN Returned(s)
        ELSE IF ViolatesNotNull(OfferingNotNull, vals) THEN Raised(s)
        ELSE Returned([s EXCEPT !.offerings =
                 [pk \in DOMAIN s.offerings |->
                     IF pk \in found
                     THEN StoredRow(OfferingNotNull, vals) @@ s.offerings[pk]
                     ELSE s.offerings[pk]]])

\* EVENT_HANDLERS: the names the event_handler decorator registered.
EVENT_HANDLERS ==
    {"OfferingConfigured", "InvestorWhitelisted", "CommitmentRecorded",
     "UnitsIssued", "SettlementRecorded", "Finalized"}

\* A dispatch that looks the handler up with EVENT_HANDLERS[event_name].
ingest_event_strict(s, event_payload) ==
    LET event_name == Get(event_payload, "event")
    IN  IF event_name = None \/ Value(event_name) \notin EVENT_HANDLERS
        THEN Raised(s)
        ELSE CASE Value(event_name) = "OfferingConfigured" ->
                      handle_offering_configured(s, event_payload)
               [] Value(event_name) = "InvestorWhitelisted" ->
                      handle_investor_whitelisted(s, event_payload)
               [] Value(event_name) = "CommitmentRecorded" ->
                      handle_commitment_recorded(s, event_payload)
               [] Value(event_name) = "UnitsIssued" ->
                      handle_units_issued(s, event_payload)
               [] Value(event_name) = "SettlementRecorded" ->
                      handle_settlement_recorded(s, event_payload)
               [] Value(event_name) = "Finalized" ->
                      handle_finalized(s, event_payload)

ingest_event(s, event_payload) ==
    LET event_name == Get(event_payload, "event")
    IN  IF event_name = None \/ event_name = Some("") THEN Returned(s)
        ELSE IF Value(event_name) \notin EVENT_HANDLERS THEN Returned(s)
        ELSE CASE Value(event_name) = "OfferingConfigured" ->
                      handle_offering_configured(s, event_payload)
               [] Value(event_name) = "InvestorWhitelisted" ->
                      handle_investor_whitelisted(s, event_payload)
               [] Value(event_name) = "CommitmentRecorded" ->
                      handle_commitment_recorded(s, event_payload)
               [] Value(event_name) = "UnitsIssued" ->
                      handle_units_issued(s, event_payload)
               [] Value(event_name) = "SettlementRecorded" ->
                      handle_settlement_recorded(s, event_payload)
               [] Value(event_name) = "Finalized" ->
                      handle_finalized(s, event_payload)

\* receive_event for a POST whose body is the JSON of payload: the store the
\* request leaves and the status of the JsonResponse.
receive_event(s, payload) ==
    LET r == ingest_event(s, payload)
    IN  [store |-> r.store, status |-> IF r.raised THEN 500 ELSE 200]

\* ------------------------------------------------------------------ adapters
\* A Python int or str is <<"int", n>> or <<"str", text>>.  An adapter maps the
\* record, the mapping, the configured systems and what the provider does with
\* a request to [success, error, requests, raised]: the tuple it returns, the
\* number of requests it issued and whether an exception left it instead.  An
\* error is <<message, status code or 0>>.

DecimalText(n) ==
    CASE n = 0 -> "0" [] n = 99 -> "99" [] n = 100 -> "100" [] n = 101 -> "101"

\* str(value)
PyStr(value) ==
    IF value[1] = "str" THEN value ELSE <<"str", DecimalText(value[2])>>

\* value == other
PyEq(value, other) == value[1] = other[1] /\ value[2] = other[2]

Succeeded(requests) ==
    [success |-> TRUE, error |-> None, requests |-> requests, raised |-> FALSE]
Failed(message, code, requests) ==
    [success |-> FALSE, error |-> Some(<<message, code>>), requests |-> requests,
     raised |-> FALSE]

\* An exception that leaves the function.
Uncaught(message, requests) ==
    [success |-> FALSE, error |-> Some(<<message, 0>>), requests |-> requests,
     raised |-> TRUE]

\* except Exception as e: return False, f"{message}: {str(e)}"
Caught(message, requests) == Failed(message, 0, requests)

\* The members of the CSDSystem enumeration that the service names; each
\* member's value is its name.
CSDSystem == {"CLEARSTREAM", "EUROCLEAR", "DTCC", "DPO_GLOBAL"}

_reconcile_clearstream(record, mapping, configured, provider) ==
    IF "CLEARSTREAM" \notin configured
    THEN Failed("Clearstream credentials not configured", 0, 0)
    ELSE IF ~ /\ {"external_ref", "settlement_date"} \subseteq DOMAIN record
              /\ "csd_security_id" \in DOMAIN mapping
    THEN Caught("Clearstream reconciliation failed", 0)
    ELSE IF provider.raises
    THEN Caught("Clearstream reconciliation failed", 1)
    ELSE IF provider.status_code = 200
    THEN IF provider.json = None \/ "units" \notin DOMAIN record
         THEN Caught("Clearstream reconciliation failed", 1)
         ELSE LET csd_data == Value(provider.json)
                  csd_units == PyStr(GetDefault(csd_data, "quantity", <<"str", "0">>))
              IN  IF PyEq(csd_units, record["units"])
                  THEN Succeeded(1)
                  ELSE Failed("Unit mismatch", 0, 1)
    ELSE Failed("Clearstream API error", provider.status_code, 1)

\* An adapter that sends its request before it looks for its credentials.
_reconcile_euroclear_eager(record, mapping, configured, provider) ==
    IF ~ /\ {"external_ref", "settlement_date", "units"} \subseteq DOMAIN record
         /\ "metadata" \in DOMAIN mapping
    THEN Caught("Euroclear reconciliation failed", 0)
    ELSE IF "EUROCLEAR" \notin configured
    THEN Failed("Euroclear credentials not configured", 0, 1)
    ELSE IF provider.raises
    THEN Caught("Euroclear reconciliation failed", 1)
    ELSE IF provider.status_code = 200
    THEN IF provider.json = None
         THEN Caught("Euroclear reconciliation failed", 1)
         ELSE IF GetDefault(Value(provider.json), "matched", FALSE)
         THEN Succeeded(1)
         ELSE Failed("Euroclear mismatch", 0, 1)
    ELSE Failed("Euroclear API error", provider.status_code, 1)

_reconcile_euroclear(record, mapping, configured, provider) ==
    IF "EUROCLEAR" \notin configured
    THEN Failed("Euroclear credentials not configured", 0, 0)
    ELSE IF ~ /\ {"external_ref", "settlement_date", "units"} \subseteq DOMAIN record
              /\ "metadata" \in DOMAIN mapping
    THEN Caught("Euroclear reconciliation failed", 0)
    ELSE IF provider.raises
    THEN Caught("Euroclear reconciliation failed", 1)
    ELSE IF provider.status_code = 200
    THEN IF provider.json = None
         THEN Caught("Euroclear reconciliation failed", 1)
         ELSE IF GetDefault(Value(provider.json), "matched", FALSE)
         THEN Succeeded(1)
         ELSE Failed("Euroclear mismatch", 0, 1)
    ELSE Failed("Euroclear API error", provider.status_code, 1)

_reconcile_dtcc(record, mapping, configured, provider) ==
    IF "DTCC" \notin configured
    THEN Failed("DTCC credentials not configured", 0, 0)
    ELSE IF "external_ref" \notin DOMAIN record
    THEN Caught("DTCC reconciliation failed", 0)
    ELSE Succeeded(0)

_reconcile_dpo_global(record, mapping, configured, provider) ==
    IF "DPO_GLOBAL" \notin configured
    THEN Failed("DPO Global credentials not configured", 0, 0)
    ELSE IF ~ {"external_ref", "investor_address", "units", "settlement_date"}
                  \subseteq DOMAIN record
    THEN Caught("DPO Global reconciliation failed", 0)
    ELSE IF provider.raises
    THEN Caught("DPO Global reconciliation failed", 1)
    ELSE IF provider.status_code = 200
    THEN IF provider.json = None
         THEN Caught("DPO Global reconciliation failed", 1)
         ELSE IF GetDefault(Value(provider.json), "verified", FALSE)
         THEN Succeeded(1)
         ELSE Failed(GetDefault(Value(provider.json), "error",
                                "Verification failed"), 0, 1)
    ELSE Failed("DPO Global API error", provider.status_code, 1)

\* An adapter's outcome as it leaves reconcile_settlement, whose own except
\* clause turns an exception of the adapter into an outcome; adapters are the
\* adapters that were called.
Delegated(csd_system, outcome) ==
    [adapters |-> {csd_system}]
        @@ (IF outcome.raised
            THEN Caught("Reconciliation error", outcome.requests)
            ELSE outcome)

reconcile_settlement(on_chain_record, csd_mapping, configured, provider) ==
    IF \/ "csd_system" \notin DOMAIN csd_mapping
       \/ ~ {"external_ref", "units"} \subseteq DOMAIN on_chain_record
    THEN [adapters |-> {}] @@ Caught("Reconciliation error", 0)
    ELSE LET csd_system == csd_mapping["csd_system"]
         IN  CASE csd_system = "CLEARSTREAM" ->
                      Delegated(csd_system,
                                _reconcile_clearstream(on_chain_record, csd_mapping,
                                                       configured, provider))
               [] csd_system = "EUROCLEAR" ->
                      Delegated(csd_system,
                                _reconcile_euroclear(on_chain_record, csd_mapping,
                                                     configured, provider))
               [] csd_system = "DTCC" ->
                      Delegated(csd_system,
                                _reconcile_dtcc(on_chain_record, csd_mapping,
                                                configured, provider))
               [] csd_system = "DPO_GLOBAL" ->
                      Delegated(csd_system,
                                _reconcile_dpo_global(on_chain_record, csd_mapping,
                                                      configured, provider))
               [] OTHER ->
                      [adapters |-> {}]
                          @@ Failed("Unsupported CSD system: " \o csd_system, 0, 0)

\* No verification called yet, and none returned yet.
NoCall ==
    [entry |-> "none", record |-> EmptyDict, mapping |-> EmptyDict,
     configured |-> {}, provider |-> [raises |-> FALSE, status_code |-> 0,
                                      json |-> None]]
NoVerdict ==
    [adapters |-> {}, success |-> FALSE, error |-> None, requests |-> 0,
     raised |-> FALSE, done |-> FALSE]

\* ------------------------------------------------------------------ batch_reconcile

Tasks == DOMAIN records

Pending == [kind |-> "pending", ref |-> None, data |-> None]

\* reconcile_with_semaphore after the semaphore is held: the tuple the coroutine
\* returns, or the AttributeError of record.external_ref that it raises.
reconcile_with_semaphore(record, mapping, configured, provider) ==
    LET outcome == reconcile_settlement(record, mapping, configured, provider)
    IN  IF "external_ref" \in DOMAIN record
        THEN [kind |-> "returned", ref |-> Some(record["external_ref"]),
              data |-> Some([success |-> outcome.success, error |-> outcome.error])]
        ELSE [kind |-> "raised", ref |-> None, data |-> None]

\* A gate that admits every task.
locked_never(value, queue) == FALSE

\* Semaphore.locked(): no free permit, or tasks queued before this one.
locked(value, queue) == value = 0 \/ queue # <<>>

\* A permit given back only when the block returned.
release_on_return(value, result) ==
    IF result.kind = "raised" THEN value ELSE value + 1

\* Leaving the async with block, by return or by exception: Semaphore.release().
release(value, result) == value + 1

\* gather without return_exceptions: the first exception is raised to the caller.
gather_propagating(task_results, finished) ==
    IF \E i \in DOMAIN task_results : task_results[i].kind = "raised"
    THEN [raised |-> TRUE, completed |-> <<>>]
    ELSE [raised |-> FALSE, completed |-> task_results]

\* Results collected as the tasks complete, as asyncio.as_completed yields them.
gather_as_completed(task_results, finished) ==
    [raised |-> FALSE,
     completed |-> [k \in DOMAIN finished |-> task_results[finished[k]]]]

\* asyncio.gather(*tasks, return_exceptions=True): the results and exceptions of
\* the tasks in the order the tasks were passed, whatever order they finished in.
gather(task_results, finished) ==
    [raised |-> FALSE, completed |-> task_results]

\* The loop over completed that fills the dict.
RECURSIVE CollectResults(_, _)
CollectResults(completed, dict) ==
    IF completed = <<>> THEN dict
    ELSE LET result == Head(completed)
         IN  CollectResults(
                 Tail(completed),
                 IF result.kind = "raised" THEN dict
                 ELSE (Value(result.ref) :> Value(result.data)) @@ dict)

\* ------------------------------------------------------------------ inputs

MaxFacts == 1
MaxInvestorFacts == 2

AssetIds == {"A1", "A2"}
Hashes == {"0xT1", "0xT2"}
Wallets == {<<"0", "x", "A", "B">>, <<"0", "x", "a", "b">>}
WideWallets == Wallets \cup {<<"0", "x", "C", "d">>}

\* A dict or object without one of its keys or attributes.
WithoutKey(payload, key) == [k \in DOMAIN payload \ {key} |-> payload[k]]

\* A key that may be absent from the JSON object.
Optional(key, values) == {EmptyDict} \cup {key :> v : v \in values}

Codes ==
    [isin |-> "US0378331005", lei |-> "LEI1", upi |-> "UPI1", cusip |-> "037833100",
     clearstream_id |-> "CS1", euroclear_id |-> "EC1"]

IdentifiersData(assets) == {("internal_asset_id" :> a) @@ Codes : a \in assets}

OfferingConfiguredPayloads ==
    {[event |-> "OfferingConfigured", offering_type |-> "REG_D", lockup_period |-> 30,
      start_timestamp |-> 1, end_timestamp |-> 2, base_currency |-> "USD"]
       @@ i @@ m @@ t :
          i \in Optional("identifiers", IdentifiersData(AssetIds)),
          m \in Optional("max_raise_amount", {100, 200}),
          t \in {"transaction_hash" :> h : h \in Hashes}}

InvestorWhitelistedPayloads(wallets) ==
    {[event |-> "InvestorWhitelisted", jurisdiction |-> "US", kyc_passed |-> TRUE,
      transaction_hash |-> "0xT1"] @@ w :
          w \in Optional("investor", wallets)}

CommitmentRecordedPayloads(wallets) ==
    {[event |-> "CommitmentRecorded", currency |-> "USD", payment_reference |-> "REF1",
      transaction_hash |-> "0xT1"] @@ w @@ a :
          w \in Optional("investor", wallets),
          a \in Optional("amount", {1000})}

UnitsIssuedPayloads(wallets) ==
    {[event |-> "UnitsIssued", lockup_release |-> 30, transaction_hash |-> "0xT1"]
       @@ w @@ u @@ i :
          w \in Optional("investor", wallets),
          u \in Optional("units", {100}),
          i \in Optional("identifiers", IdentifiersData({"A1"}))}

SettlementRecordedPayloads(wallets) ==
    {[event |-> "SettlementRecorded", settlement_system |-> "CLEARSTREAM",
      external_reference |-> "CLSTM-2025-001", transaction_hash |-> "0xT1"] @@ w @@ u :
          w \in Optional("investor", wallets),
          u \in Optional("units", {100})}

FinalizedPayloads ==
    {[event |-> "Finalized", finalized_at |-> 9, total_units_issued |-> 3] @@ t @@ c :
          t \in Optional("transaction_hash", Hashes),
          c \in Optional("total_committed", {-1, 5})}

UnhandledPayloads ==
    {EmptyDict, [event |-> ""], [event |-> "Transfer"],
     [investor |-> <<"0", "x", "a", "b">>, amount |-> 1000]}

\* ------------------------------------------------------------------ ingestion

Init ==
    /\ identifiers = <<>>
    /\ offerings = <<>>
    /\ investors = <<>>
    /\ commitments = <<>>
    /\ units_issued = <<>>
    /\ settlements = <<>>
    /\ response = 0
    /\ credentials = {}
    /\ records = <<>>
    /\ max_concurrent = 0
    /\ semaphore = 0
    /\ waiters = <<>>
    /\ task_pc = <<>>
    /\ provider_did = <<>>
    /\ task_result = <<>>
    /\ completion = <<>>
    /\ results = <<>>
    /\ batch_pc = "idle"
    /\ call = NoCall
    /\ verdict = NoVerdict
    /\ inflight = <<>>

\* One POST to ingest/: the view, the dispatch and the handler.  maxFacts caps
\* the rows of the three append-only tables together.
Receive(payload, maxFacts) ==
    \E r \in {receive_event(Store, payload)} :
        /\ Len(r.store.commitments) + Len(r.store.units_issued)
               + Len(r.store.settlements) <= maxFacts
        /\ identifiers' = r.store.identifiers
        /\ offerings' = r.store.offerings
        /\ investors' = r.store.investors
        /\ commitments' = r.store.commitments
        /\ units_issued' = r.store.units_issued
        /\ settlements' = r.store.settlements
        /\ response' = r.status
        /\ UNCHANGED <<batchVars, verifyVars, concurrentVars>>

OfferingConfigured ==
    \E payload \in OfferingConfiguredPayloads :
        /\ Get(payload, "event") = Some("OfferingConfigured")
        /\ Receive(payload, MaxFacts)
InvestorWhitelisted ==
    \E payload \in InvestorWhitelistedPayloads(Wallets) :
        /\ Get(payload, "event") = Some("InvestorWhitelisted")
        /\ Receive(payload, MaxFacts)
CommitmentRecorded ==
    \E payload \in CommitmentRecordedPayloads(Wallets) :
        /\ Get(payload, "event") = Some("CommitmentRecorded")
        /\ Receive(payload, MaxFacts)
UnitsIssued ==
    \E payload \in UnitsIssuedPayloads(Wallets) :
        /\ Get(payload, "event") = Some("UnitsIssued")
        /\ Receive(payload, MaxFacts)
SettlementRecorded ==
    \E payload \in SettlementRecordedPayloads(Wallets) :
        /\ Get(payload, "event") = Some("SettlementRecorded")
        /\ Receive(payload, MaxFacts)
Finalized ==
    \E payload \in FinalizedPayloads :
        /\ Get(payload, "event") = Some("Finalized")
        /\ Receive(payload, MaxFacts)
Unhandled ==
    \E payload \in UnhandledPayloads :
        /\ Get(payload, "event") \notin {Some(h) : h \in EVENT_HANDLERS}
        /\ Receive(payload, MaxFacts)

Next ==
    \/ OfferingConfigured
    \/ InvestorWhitelisted
    \/ CommitmentRecorded
    \/ UnitsIssued
    \/ SettlementRecorded
    \/ Finalized
    \/ Unhandled

Spec == Init /\ [][Next]_vars

\* The investor-referencing events alone, over two wallet identities and a
\* longer run of fact events.
InvestorWhitelistedWide ==
    \E payload \in InvestorWhitelistedPayloads(WideWallets) :
        /\ Get(payload, "event") = Some("InvestorWhitelisted")
        /\ Receive(payload, MaxInvestorFacts)
CommitmentRecordedWide ==
    \E payload \in CommitmentRecordedPayloads(WideWallets) :
        /\ Get(payload, "event") = Some("CommitmentRecorded")
        /\ Receive(payload, MaxInvestorFacts)
UnitsIssuedWide ==
    \E payload \in UnitsIssuedPayloads(WideWallets) :
        /\ Get(payload, "event") = Some("UnitsIssued")
        /\ Receive(payload, MaxInvestorFacts)
SettlementRecordedWide ==
    \E payload \in SettlementRecordedPayloads(WideWallets) :
        /\ Get(payload, "event") = Some("SettlementRecorded")
        /\ Receive(payload, MaxInvestorFacts)

NextInvestor ==
    \/ InvestorWhitelistedWide
    \/ CommitmentRecordedWide
    \/ UnitsIssuedWide
    \/ SettlementRecordedWide

SpecInvestor == Init /\ [][NextInvestor]_vars

\* ------------------------------------------------------------------ one batch

NumPairs == 3
MaxConcurrent == 2

Refs == {"CLSTM-2025-001", "CLSTM-2025-002"}

BatchRecords ==
    {[units |-> <<"str", "100">>, settlement_date |-> "2025-01-01",
      investor_address |-> "0x1234"] @@ r : r \in Optional("external_ref", Refs)}

ClearstreamMapping ==
    [csd_system |-> "CLEARSTREAM", csd_security_id |-> "US0378331005"]
DTCCMapping == [csd_system |-> "DTCC", csd_security_id |-> "037833100"]

BatchPairs ==
    {[record |-> r, mapping |-> ClearstreamMapping] : r \in BatchRecords}
        \cup {[record |-> r, mapping |-> DTCCMapping] :
                  r \in {q \in BatchRecords :
                            Get(q, "external_ref") = Some("CLSTM-2025-001")}}

\* What the provider does with one request: a response, or a transport error
\* or timeout raised by the client.
Response(status_code, json) ==
    [raises |-> FALSE, status_code |-> status_code, json |-> json]
TransportError == [raises |-> TRUE, status_code |-> 0, json |-> None]

BatchProviders ==
    {Response(200, Some([quantity |-> <<"int", 100>>])), Response(503, None),
     TransportError}

InitBatch ==
    /\ identifiers = <<>>
    /\ offerings = <<>>
    /\ investors = <<>>
    /\ commitments = <<>>
    /\ units_issued = <<>>
    /\ settlements = <<>>
    /\ response = 0
    /\ credentials = {"CLEARSTREAM", "EUROCLEAR", "DTCC", "DPO_GLOBAL"}
    /\ records \in UNION {[1..n -> BatchPairs] : n \in 0..NumPairs}
    /\ max_concurrent \in 1..MaxConcurrent
    /\ semaphore = max_concurrent
    /\ waiters = <<>>
    /\ task_pc = [i \in Tasks |-> "created"]
    /\ provider_did = [i \in Tasks |-> None]
    /\ task_result = [i \in Tasks |-> Pending]
    /\ completion = <<>>
    /\ results = <<>>
    /\ batch_pc = "gathering"
    /\ call = NoCall
    /\ verdict = NoVerdict
    /\ inflight = <<>>

\* A task starts, in the order the tasks were created: it takes a permit, or
\* queues on the semaphore.
Enter(i) ==
    /\ batch_pc = "gathering"
    /\ task_pc[i] = "created"
    /\ \A j \in Tasks : j < i => task_pc[j] # "created"
    /\ IF locked(semaphore, waiters)
       THEN /\ waiters' = Append(waiters, i)
            /\ task_pc' = [task_pc EXCEPT ![i] = "waiting"]
            /\ UNCHANGED semaphore
       ELSE /\ semaphore' = semaphore - 1
            /\ task_pc' = [task_pc EXCEPT ![i] = "in_flight"]
            /\ UNCHANGED waiters
    /\ UNCHANGED <<storeVars, verifyVars, concurrentVars, credentials, records,
                   max_concurrent,
                   provider_did, task_result, completion, results, batch_pc>>

\* The first queued task is woken by a release and takes the permit.
Wake(i) ==
    /\ task_pc[i] = "waiting"
    /\ waiters # <<>> /\ Head(waiters) = i
    /\ semaphore > 0
    /\ semaphore' = semaphore - 1
    /\ waiters' = Tail(waiters)
    /\ task_pc' = [task_pc EXCEPT ![i] = "in_flight"]
    /\ UNCHANGED <<storeVars, verifyVars, concurrentVars, credentials, records,
                   max_concurrent,
                   provider_did, task_result, completion, results, batch_pc>>

\* reconcile_settlement comes back, the coroutine returns or raises, and the
\* async with block releases the permit.
Finish(i) ==
    /\ task_pc[i] = "in_flight"
    /\ \E does \in BatchProviders :
           /\ provider_did' = [provider_did EXCEPT ![i] = Some(does)]
           /\ task_result' =
                  [task_result EXCEPT ![i] =
                      reconcile_with_semaphore(records[i].record,
                                               records[i].mapping,
                                               credentials, does)]
    /\ semaphore' = release(semaphore, task_result'[i])
    /\ task_pc' = [task_pc EXCEPT ![i] = "done"]
    /\ completion' = Append(completion, i)
    /\ UNCHANGED <<storeVars, verifyVars, concurrentVars, credentials, records,
                   max_concurrent,
                   waiters, results, batch_pc>>

\* gather has every task's result: the loop fills the dict and it is returned.
Return ==
    /\ batch_pc = "gathering"
    /\ \A i \in Tasks : task_pc[i] = "done"
    /\ \E gathered \in {gather(task_result, completion)} :
           IF gathered.raised
           THEN batch_pc' = "raised" /\ UNCHANGED results
           ELSE /\ results' = CollectResults(gathered.completed, <<>>)
                /\ batch_pc' = "returned"
    /\ UNCHANGED <<storeVars, verifyVars, concurrentVars, credentials, records,
                   max_concurrent,
                   semaphore, waiters, task_pc, provider_did, task_result, completion>>

NextBatch ==
    \/ \E i \in Tasks : Enter(i)
    \/ \E i \in Tasks : Wake(i)
    \/ \E i \in Tasks : Finish(i)
    \/ Return

SpecBatch == InitBatch /\ [][NextBatch]_vars

\* The event loop runs every task that can run, and every request comes back
\* or is cut off by the client's timeout.
\* Batches of pairs for Clearstream under one reference or with no reference.
InitBatchLive ==
    /\ InitBatch
    /\ \A i \in Tasks :
           /\ records[i].mapping = ClearstreamMapping
           /\ Get(records[i].record, "external_ref") # Some("CLSTM-2025-002")

SpecBatchLive == InitBatchLive /\ [][NextBatch]_vars /\ WF_vars(NextBatch)

\* ------------------------------------------------------------------ one verification

\* What SettlementRecord.units can hold, and the string the same count is in
\* a record built by hand.
UnitCounts == {<<"int", 100>>, <<"str", "100">>}

\* Records that have every attribute the service reads, records that lack one
\* of them, and a row of the SettlementRecord model.
VerifyRecords ==
    LET whole == {[external_ref |-> "CLSTM-2025-001", units |-> units,
                   settlement_date |-> "2025-01-01",
                   investor_address |-> "0x1234"] : units \in UnitCounts}
    IN  whole
            \cup {WithoutKey(record, attr) :
                      record \in {r \in whole : r["units"][1] = "str"},
                      attr \in {"external_ref", "units", "settlement_date",
                                "investor_address"}}
            \cup {[units |-> <<"int", 100>>, settlement_system |-> "CLEARSTREAM",
                   external_reference |-> "CLSTM-2025-001", tx_hash |-> "0xT1"]}

\* Mappings that declare a member of CSDSystem or another system, mappings
\* that lack an attribute an adapter reads, and a row of the CSDMapping model.
VerifyMappings ==
    LET whole == {[csd_system |-> system, csd_security_id |-> "US0378331005",
                   metadata |-> [isin |-> "US0378331005"]] :
                      system \in CSDSystem \cup {"SIX_SIS"}}
    IN  whole
            \cup {WithoutKey(mapping, attr) :
                      mapping \in {m \in whole :
                                       m["csd_system"] \in {"CLEARSTREAM", "EUROCLEAR"}},
                      attr \in {"csd_security_id", "metadata"}}
            \cup {[clearstream_asset_id |-> "CS1", euroclear_asset_id |-> "EC1"]}

\* api_credentials with every system, with all but one, and with none.
VerifyCredentials ==
    {CSDSystem, {}} \cup {CSDSystem \ {system} : system \in CSDSystem}

StatusCodes == {200, 201, 204, 404, 503}

ProviderTexts == {"Investor not found", "Unsupported CSD system: SIX_SIS"}

\* The JSON object of a response body; None is a body that is no JSON.
Bodies ==
    {None, Some(EmptyDict)}
        \cup {Some([quantity |-> q]) :
                  q \in {<<"int", 100>>, <<"int", 99>>, <<"str", "100">>}}
        \cup {Some([matched |-> b]) : b \in BOOLEAN}
        \cup {Some([verified |-> b]) : b \in BOOLEAN}
        \cup {Some([verified |-> FALSE, error |-> text]) : text \in ProviderTexts}

VerifyProviders ==
    {TransportError}
        \cup {Response(code, body) : code \in StatusCodes, body \in Bodies}

Calls ==
    [entry : {"reconcile_settlement"} \cup CSDSystem, record : VerifyRecords,
     mapping : VerifyMappings, configured : VerifyCredentials,
     provider : VerifyProviders]

InitVerify ==
    /\ identifiers = <<>>
    /\ offerings = <<>>
    /\ investors = <<>>
    /\ commitments = <<>>
    /\ units_issued = <<>>
    /\ settlements = <<>>
    /\ response = 0
    /\ credentials = {}
    /\ records = <<>>
    /\ max_concurrent = 0
    /\ semaphore = 0
    /\ waiters = <<>>
    /\ task_pc = <<>>
    /\ provider_did = <<>>
    /\ task_result = <<>>
    /\ completion = <<>>
    /\ results = <<>>
    /\ batch_pc = "idle"
    /\ call \in Calls
    /\ verdict = NoVerdict
    /\ inflight = <<>>

\* The called function runs to its end.
Ends(result) ==
    /\ ~verdict.done
    /\ verdict' = [done |-> TRUE] @@ result
    /\ UNCHANGED <<storeVars, batchVars, concurrentVars, call>>

ReconcileSettlement ==
    /\ call.entry = "reconcile_settlement"
    /\ Ends(reconcile_settlement(call.record, call.mapping, call.configured,
                                 call.provider))

ReconcileClearstream ==
    /\ call.entry = "CLEARSTREAM"
    /\ Ends([adapters |-> {call.entry}]
                @@ _reconcile_clearstream(call.record, call.mapping,
                                          call.configured, call.provider))

ReconcileEuroclear ==
    /\ call.entry = "EUROCLEAR"
    /\ Ends([adapters |-> {call.entry}]
                @@ _reconcile_euroclear(call.record, call.mapping,
                                        call.configured, call.provider))

ReconcileDTCC ==
    /\ call.entry = "DTCC"
    /\ Ends([adapters |-> {call.entry}]
                @@ _reconcile_dtcc(call.record, call.mapping, call.configured,
                                   call.provider))

ReconcileDPOGlobal ==
    /\ call.entry = "DPO_GLOBAL"
    /\ Ends([adapters |-> {call.entry}]
                @@ _reconcile_dpo_global(call.record, call.mapping,
                                         call.configured, call.provider))

NextVerify ==
    \/ ReconcileSettlement
    \/ ReconcileClearstream
    \/ ReconcileEuroclear
    \/ ReconcileDTCC
    \/ ReconcileDPOGlobal

SpecVerify == InitVerify /\ [][NextVerify]_vars

\* ------------------------------------------------------------------ concurrent requests
\* Two OfferingConfigured requests served at the same time.  Each ORM statement
\* commits on its own.  update_or_create runs in a transaction: its SELECT FOR
\* UPDATE finds the row and holds it until the save, or finds none and INSERTs;
\* an INSERT that meets the unique key raises IntegrityError inside
\* get_or_create, which then gets the row, and the row is saved.

Isins == {"US0378331005", "US5949181045"}

\* OfferingConfigured payloads for one internal_asset_id.
ConcurrentPayloads ==
    {[payload EXCEPT !["identifiers"] = ("isin" :> isin) @@ @] :
         payload \in {p \in OfferingConfiguredPayloads :
                          Get(GetDefault(p, "identifiers", EmptyDict),
                              "internal_asset_id") = Some("A1")},
         isin \in Isins}

EmptyStore ==
    [identifiers |-> <<>>, offerings |-> <<>>, investors |-> <<>>,
     commitments |-> <<>>, units_issued |-> <<>>, settlements |-> <<>>]

InitConcurrent ==
    /\ identifiers = <<>>
    /\ offerings = <<>>
    /\ investors = <<>>
    /\ commitments = <<>>
    /\ units_issued = <<>>
    /\ settlements = <<>>
    /\ response = 0
    /\ credentials = {}
    /\ records = <<>>
    /\ max_concurrent = 0
    /\ semaphore = 0
    /\ waiters = <<>>
    /\ task_pc = <<>>
    /\ provider_did = <<>>
    /\ task_result = <<>>
    /\ completion = <<>>
    /\ results = <<>>
    /\ batch_pc = "idle"
    /\ call = NoCall
    /\ verdict = NoVerdict
    /\ \E first, second \in ConcurrentPayloads :
           /\ first # second
           /\ inflight = [i \in 1..2 |->
                              [payload |-> IF i = 1 THEN first ELSE second,
                               pc |-> "identifier", identifier |-> 0,
                               status |-> 0]]

\* The statement request i is at: its table, constraints, lookup and defaults.
Statement(i) ==
    IF inflight[i].pc \in {"identifier", "identifier_locked", "identifier_insert"}
    THEN [name |-> "identifier", table |-> identifiers,
          notNull |-> IdentifierNotNull, unique |-> IdentifierUnique,
          columnDefaults |-> IdentifierColumnDefaults,
          lookup |-> IdentifierLookup(inflight[i].payload),
          defaults |-> IdentifierDefaults(inflight[i].payload)]
    ELSE [name |-> "offering", table |-> offerings,
          notNull |-> OfferingNotNull, unique |-> OfferingUnique,
          columnDefaults |-> OfferingColumnDefaults,
          lookup |-> OfferingLookup(inflight[i].payload),
          defaults |-> OfferingDefaults(inflight[i].payload,
                                        inflight[i].identifier)]

\* Request j holds the row that request i's statement looks up.
HoldsRow(j, i) ==
    /\ inflight[j].pc \in {"identifier_locked", "offering_locked"}
    /\ Statement(j).name = Statement(i).name
    /\ Statement(j).lookup = Statement(i).lookup

\* SELECT ... FOR UPDATE of update_or_create: the row is found and held, or
\* there is none and the INSERT comes next; it waits while another request
\* holds the row.
Select(i) ==
    /\ inflight[i].pc \in {"identifier", "offering"}
    /\ \A j \in DOMAIN inflight \ {i} : ~HoldsRow(j, i)
    /\ \E st \in {Statement(i)} :
           inflight' =
               [inflight EXCEPT ![i].pc =
                   IF Filter(st.table, st.notNull, st.lookup) = {}
                   THEN st.name \o "_insert" ELSE st.name \o "_locked"]
    /\ UNCHANGED <<storeVars, batchVars, verifyVars>>

\* The INSERT, or the save of the row found or met by the INSERT, and the commit;
\* after the Offering's the handler returns and the request is answered.
Write(i) ==
    /\ inflight[i].pc \in {"identifier_locked", "identifier_insert",
                           "offering_locked", "offering_insert"}
    /\ \E st \in {Statement(i)} :
       \E r \in {update_or_create(st.table, st.notNull, st.unique,
                                  st.columnDefaults, st.lookup, st.defaults)} :
           /\ IF st.name = "identifier"
              THEN identifiers' = r.table /\ UNCHANGED offerings
              ELSE offerings' = r.table /\ UNCHANGED identifiers
           /\ inflight' =
                  [inflight EXCEPT ![i] =
                      IF r.raised
                      THEN [@ EXCEPT !.pc = "done", !.status = 500]
                      ELSE IF st.name = "identifier"
                      THEN [@ EXCEPT !.pc = "offering", !.identifier = r.pk]
                      ELSE [@ EXCEPT !.pc = "done", !.status = 200]]
    /\ UNCHANGED <<investors, commitments, units_issued, settlements, response,
                   batchVars, verifyVars>>

NextConcurrent ==
    \/ \E i \in DOMAIN inflight : Select(i)
    \/ \E i \in DOMAIN inflight : Write(i)

SpecConcurrent == InitConcurrent /\ [][NextConcurrent]_vars

\* ------------------------------------------------------------------ claims

UpsertPayloads ==
    OfferingConfiguredPayloads \cup InvestorWhitelistedPayloads(Wallets)
        \cup FinalizedPayloads

\* C1: for OfferingConfigured, InvestorWhitelisted and Finalized, from every
\* reachable store, applying an event a second time with the same payload leaves
\* every table (its rows and all their fields) as the first application left it.
C1_UpsertIdempotent ==
    \A payload \in UpsertPayloads :
        LET once == ingest_event(Store, payload)
        IN  ingest_event(once.store, payload).store = once.store

\* A store that one more application of an OfferingConfigured, of an
\* InvestorWhitelisted and of a Finalized event each leaves as it is: one
\* Identifier and one finalized Offering for the asset, one whitelisted Investor.
C1_Witness ==
    /\ Len(identifiers) = 1 /\ Len(offerings) = 1 /\ Len(investors) = 1
    /\ offerings[1].is_finalized /\ investors[1].kyc_passed
    /\ \E payload \in OfferingConfiguredPayloads :
           ingest_event(Store, payload) = Returned(Store)
    /\ \E payload \in InvestorWhitelistedPayloads(Wallets) :
           ingest_event(Store, payload) = Returned(Store)
    /\ \E payload \in FinalizedPayloads :
           /\ Get(payload, "transaction_hash") = offerings[1].last_event_tx_hash
           /\ ingest_event(Store, payload) = Returned(Store)

FactAppended(before, after) ==
    /\ Len(after) = Len(before) + 1
    /\ SubSeq(after, 1, Len(before)) = before

\* C2: from every reachable store, a CommitmentRecorded (UnitsIssued,
\* SettlementRecorded) event that is applied without error appends exactly one
\* row to commitments (units_issued, settlements) and leaves the rows already
\* there, and the other two fact tables, as they were, whether or not an equal
\* row exists.
C2_FactEventsAppend ==
    /\ \A payload \in CommitmentRecordedPayloads(WideWallets) :
           \A applied \in {receive_event(Store, payload)} :
               applied.status = 200
                   => /\ FactAppended(commitments, applied.store.commitments)
                      /\ applied.store.units_issued = units_issued
                      /\ applied.store.settlements = settlements
    /\ \A payload \in UnitsIssuedPayloads(WideWallets) :
           \A applied \in {receive_event(Store, payload)} :
               applied.status = 200
                   => /\ FactAppended(units_issued, applied.store.units_issued)
                      /\ applied.store.commitments = commitments
                      /\ applied.store.settlements = settlements
    /\ \A payload \in SettlementRecordedPayloads(WideWallets) :
           \A applied \in {receive_event(Store, payload)} :
               applied.status = 200
                   => /\ FactAppended(settlements, applied.store.settlements)
                      /\ applied.store.commitments = commitments
                      /\ applied.store.units_issued = units_issued

\* Two equal Commitment rows: the second event of the same payload was appended.
C2_Witness ==
    /\ Len(commitments) = 2
    /\ commitments[1] = commitments[2]

\* The investor a fact event referenced: the investor column of the row it added.
ReferencedInvestor(before, after) ==
    IF Len(after.commitments) > Len(before.commitments)
    THEN after.commitments[Len(after.commitments)].investor
    ELSE IF Len(after.units_issued) > Len(before.units_issued)
    THEN after.units_issued[Len(after.units_issued)].investor
    ELSE after.settlements[Len(after.settlements)].investor

\* The payloads of the four investor-referencing events that name a wallet.
InvestorEventPayloads ==
    {payload \in InvestorWhitelistedPayloads(WideWallets)
                     \cup CommitmentRecordedPayloads(WideWallets)
                     \cup UnitsIssuedPayloads(WideWallets)
                     \cup SettlementRecordedPayloads(WideWallets) :
        "investor" \in DOMAIN payload}

FactEventPayloads ==
    {payload \in InvestorEventPayloads :
        payload["event"] # "InvestorWhitelisted"}

UpperCaseLetters == {"A", "B", "C", "D", "E", "F"}
LetterCases ==
    {{"A", "a"}, {"B", "b"}, {"C", "c"}, {"D", "d"}, {"E", "e"}, {"F", "f"}}

\* The two addresses differ at most in the case of their letters.
SameUpToCase(a, b) ==
    /\ Len(a) = Len(b)
    /\ \A i \in DOMAIN a : a[i] = b[i] \/ {a[i], b[i]} \in LetterCases

IsLowerCase(a) == \A i \in DOMAIN a : a[i] \notin UpperCaseLetters

\* C3: after any sequence of InvestorWhitelisted, CommitmentRecorded, UnitsIssued
\* and SettlementRecorded events no two Investor rows have wallet addresses equal
\* up to letter case, every stored wallet address is lower case, and a fact event
\* applied after an event whose wallet differs at most in letter case adds no
\* Investor row and references the row of that wallet.
C3_InvestorIdentity ==
    /\ \A i, j \in DOMAIN investors :
           SameUpToCase(investors[i].wallet_address, investors[j].wallet_address)
               => i = j
    /\ \A i \in DOMAIN investors : IsLowerCase(investors[i].wallet_address)
    /\ \A first \in InvestorEventPayloads :
           \A s1 \in {ingest_event(Store, first)} :
               \A second \in FactEventPayloads :
                   SameUpToCase(first["investor"], second["investor"])
                       => \A s2 \in {ingest_event(s1.store, second)} :
                              ~s2.raised
                                  => /\ Len(s2.store.investors)
                                            = Len(s1.store.investors)
                                     /\ SameUpToCase(
                                            s2.store.investors[
                                                ReferencedInvestor(s1.store, s2.store)]
                                                    .wallet_address,
                                            first["investor"])

\* Two investors, the first whitelisted, and a commitment and a settlement that
\* both reference the whitelisted row.
C3_Witness ==
    /\ Len(investors) = 2
    /\ investors[1].kyc_passed
    /\ Len(commitments) = 1 /\ commitments[1].investor = 1
    /\ Len(settlements) = 1 /\ settlements[1].investor = 1

\* The Finalized payloads that carry the hash and both totals.
FinalizedComplete ==
    {payload \in FinalizedPayloads :
        {"transaction_hash", "total_committed", "total_units_issued"}
            \subseteq DOMAIN payload}

\* What a Finalized event with this payload is to make of the store before.
FinalizationFrame(before, after, payload) ==
    /\ DOMAIN after.offerings = DOMAIN before.offerings
    /\ \A pk \in DOMAIN before.offerings :
           IF before.offerings[pk].last_event_tx_hash
                  = Some(payload["transaction_hash"])
           THEN after.offerings[pk] =
                    [before.offerings[pk] EXCEPT
                        !.total_committed = payload["total_committed"],
                        !.total_units_issued = payload["total_units_issued"],
                        !.finalized_at = Get(payload, "finalized_at"),
                        !.is_finalized = TRUE]
           ELSE after.offerings[pk] = before.offerings[pk]
    /\ \A table \in DOMAIN before \ {"offerings"} : after[table] = before[table]

\* C4: from every reachable store, a Finalized event with transaction_hash h
\* that carries both totals is applied without error, sets total_committed,
\* total_units_issued, finalized_at and is_finalized = TRUE on exactly the
\* Offering rows whose last_event_tx_hash is h and changes no other field and no
\* other row of any table; with no such Offering the store is unchanged.
C4_FinalizationCorrelation ==
    \A payload \in FinalizedComplete :
        LET applied == receive_event(Store, payload)
        IN  /\ applied.status = 200
            /\ FinalizationFrame(Store, applied.store, payload)
            /\ (\A pk \in DOMAIN offerings :
                    offerings[pk].last_event_tx_hash
                        # Some(payload["transaction_hash"]))
                   => applied.store = Store

\* Two offerings configured under different hashes, the first finalized and the
\* second not, beside rows of other tables.
C4_Witness ==
    /\ Len(offerings) = 2 /\ Len(identifiers) = 2 /\ Len(investors) = 1
    /\ offerings[1].last_event_tx_hash # offerings[2].last_event_tx_hash
    /\ offerings[1].is_finalized /\ offerings[1].total_committed = 5
    /\ ~offerings[2].is_finalized /\ offerings[2].total_committed = 0

FinancialFields ==
    {"max_raise_amount", "lockup_period", "start_timestamp", "end_timestamp",
     "base_currency", "total_committed", "total_units_issued"}

\* C5: once an Offering row has is_finalized = TRUE, no event changes the flag
\* or any of the row's financial fields.
C5_FinalizedFrozen ==
    [][\A pk \in DOMAIN offerings :
           offerings[pk].is_finalized
               => /\ pk \in DOMAIN offerings'
                  /\ offerings'[pk].is_finalized
                  /\ \A field \in FinancialFields :
                         offerings'[pk][field] = offerings[pk][field]]_vars

\* C6: every Offering row has total_committed >= 0 and total_units_issued >= 0.
C6_TotalsNonNegative ==
    \A pk \in DOMAIN offerings :
        /\ offerings[pk].total_committed >= 0
        /\ offerings[pk].total_units_issued >= 0

\* ---- batch_reconcile

InFlight == {i \in Tasks : task_pc[i] = "in_flight"}

\* C7: at every moment of a batch_reconcile call with max_concurrent = N, at most
\* N tasks are inside reconcile_settlement, for every interleaving and every
\* number of pairs.
C7_ConcurrencyBound ==
    batch_pc # "idle" => Cardinality(InFlight) <= max_concurrent

\* N calls are in flight while a further task is held back at the semaphore.
C7_Witness ==
    /\ max_concurrent = 2
    /\ Cardinality(InFlight) = max_concurrent
    /\ \E i \in Tasks : task_pc[i] = "waiting"

HasRef(i) == "external_ref" \in DOMAIN records[i].record
RefOf(i) == records[i].record["external_ref"]
SharesRef(i, j) == HasRef(i) /\ HasRef(j) /\ RefOf(i) = RefOf(j)

\* What reconcile_settlement returns for pair i alone, given what the provider
\* did with its request.
OutcomeAlone(i) ==
    LET outcome == reconcile_settlement(records[i].record, records[i].mapping,
                                        credentials, Value(provider_did[i]))
    IN  [success |-> outcome.success, error |-> outcome.error]

\* The verification of pair i failed: the call reported a failure, or the task
\* raised.
VerificationFailed(i) ==
    /\ task_pc[i] = "done"
    /\ ~OutcomeAlone(i).success \/ task_result[i].kind = "raised"

HoldsOwnOutcome(i) ==
    /\ HasRef(i)
    /\ RefOf(i) \in DOMAIN results
    /\ results[RefOf(i)] = OutcomeAlone(i)

Settled == batch_pc \in {"returned", "raised"}

\* C8 as stated: when the verification of one pair fails, the returned map holds
\* for every other pair that pair's own outcome.
C8_EveryOtherPairHoldsOwnOutcome ==
    Settled =>
        /\ batch_pc = "returned"
        /\ \A k \in Tasks :
               VerificationFailed(k) =>
                   \A i \in Tasks \ {k} : HoldsOwnOutcome(i)

\* C8: batch_reconcile returns whatever happens to any pair, and for every pair
\* whose external reference no later pair of the list carries, the returned map
\* holds under that reference the outcome reconcile_settlement returns for the
\* pair alone.
C8_BatchIsolation ==
    Settled =>
        /\ batch_pc = "returned"
        /\ \A i \in Tasks :
               (HasRef(i) /\ \A j \in Tasks : j > i => ~SharesRef(i, j))
                   => HoldsOwnOutcome(i)

\* Three pairs: the second one's task raised, the first met a provider error,
\* the third was verified, and the first and third have their own entries.
C8_Witness ==
    /\ batch_pc = "returned"
    /\ Len(records) = 3
    /\ task_result[2].kind = "raised"
    /\ ~SharesRef(1, 3)
    /\ HoldsOwnOutcome(1) /\ ~results[RefOf(1)].success
    /\ HoldsOwnOutcome(3) /\ results[RefOf(3)].success

\* C9: when batch_reconcile returns, every pair has an entry in the map, pairs
\* whose task ended in an error included, and an entry under a reference is the
\* outcome of a pair with that reference.
C9_EveryFailureRecorded ==
    batch_pc = "returned" =>
        /\ \A i \in Tasks :
               \/ HasRef(i) /\ RefOf(i) \in DOMAIN results
               \/ \E ref \in DOMAIN results :
                      task_result[i].kind = "raised" /\ ~results[ref].success
        /\ \A i \in Tasks : task_result[i].kind = "raised" =>
               \E ref \in DOMAIN results :
                   /\ ~results[ref].success
                   /\ \A j \in Tasks \ {i} : HasRef(j) => RefOf(j) # ref
        /\ \A ref \in DOMAIN results :
               \E i \in Tasks :
                   HasRef(i) /\ RefOf(i) = ref /\ results[ref] = OutcomeAlone(i)

Position(i) == CHOOSE k \in DOMAIN completion : completion[k] = i

\* C10 as stated: of the pairs that share an external reference, the one whose
\* verification completed last has its outcome under that reference.
C10_LaterCompletingWins ==
    batch_pc = "returned" =>
        \A i, j \in Tasks :
            (i # j /\ SharesRef(i, j)
                 /\ \A k \in Tasks : SharesRef(j, k) => Position(k) <= Position(j))
                => results[RefOf(j)] = OutcomeAlone(j)

\* C10: of the pairs that share an external reference, the one that comes last
\* in the list passed to batch_reconcile has its outcome under that reference,
\* in whatever order the verifications completed.
C10_LaterInInputWins ==
    batch_pc = "returned" =>
        \A i, j \in Tasks :
            (i # j /\ SharesRef(i, j) /\ \A k \in Tasks : SharesRef(j, k) => k <= j)
                => results[RefOf(j)] = OutcomeAlone(j)

\* Two pairs share a reference, the later one of the list completed first with
\* a different outcome, and the map holds the later one's outcome.
C10_Witness ==
    /\ batch_pc = "returned"
    /\ \E i, j \in Tasks :
           /\ i < j /\ SharesRef(i, j)
           /\ \A k \in Tasks : SharesRef(j, k) => k <= j
           /\ Position(j) < Position(i)
           /\ OutcomeAlone(i) # OutcomeAlone(j)
           /\ results[RefOf(j)] = OutcomeAlone(j)

\* C11: every permit taken is given back when the call ends, however it ends, so
\* the free permits and the calls in flight always add up to max_concurrent;
\* every task is admitted and completes, batch_reconcile returns, and all
\* max_concurrent permits are free when it does.
C11_GateExceptionSafe ==
    /\ [](batch_pc # "idle" =>
              semaphore + Cardinality(InFlight) = max_concurrent)
    /\ <>(/\ batch_pc = "returned"
          /\ \A i \in Tasks : task_pc[i] = "done"
          /\ semaphore = max_concurrent)

\* A returned batch of more pairs than permits in which one task raised, one call
\* reported a failure and one succeeded, with every permit free.
C11_Witness ==
    /\ batch_pc = "returned"
    /\ Len(records) > max_concurrent
    /\ semaphore = max_concurrent
    /\ \E i, j, k \in Tasks :
           /\ task_result[i].kind = "raised"
           /\ task_result[j].kind = "returned" /\ ~Value(task_result[j].data).success
           /\ task_result[k].kind = "returned" /\ Value(task_result[k].data).success

\* ---- dispatch

\* Payloads of registered types with the event key taken away, emptied or
\* naming an unregistered type, besides the ones the endpoint is sent.
UnknownEventPayloads ==
    LET registered ==
            {payload \in InvestorWhitelistedPayloads(Wallets)
                              \cup CommitmentRecordedPayloads(Wallets)
                              \cup FinalizedPayloads :
                 DOMAIN payload \cap {"investor", "total_committed"} # {}}
    IN  UnhandledPayloads
            \cup {WithoutKey(payload, "event") : payload \in registered}
            \cup {[payload EXCEPT !["event"] = name] :
                      payload \in registered, name \in {"", "Transfer", "finalized"}}

\* C12: from every reachable store, ingest_event on a payload whose event is
\* missing, empty or unregistered returns without an error and leaves every
\* table as it was, whatever else the payload carries, and receive_event
\* answers 200.
C12_UnknownEventNoOp ==
    \A payload \in UnknownEventPayloads :
        /\ ingest_event(Store, payload) = Returned(Store)
        /\ receive_event(Store, payload) = [store |-> Store, status |-> 200]

\* A store with an offering and an investor was sent a commitment's payload
\* under an unregistered name, and was answered 200.
C12_Witness ==
    /\ offerings # <<>> /\ investors # <<>>
    /\ response = 200
    /\ \E payload \in UnknownEventPayloads :
           /\ {"event", "investor", "amount"} \subseteq DOMAIN payload
           /\ receive_event(Store, payload) = [store |-> Store, status |-> 200]

\* ---- malformed events

\* Payloads of the registered types that lack the key their handler looks the
\* row up by.
MalformedPayloads ==
    {payload \in InvestorWhitelistedPayloads(Wallets)
                     \cup CommitmentRecordedPayloads(Wallets)
                     \cup UnitsIssuedPayloads(Wallets)
                     \cup SettlementRecordedPayloads(Wallets) :
         "investor" \notin DOMAIN payload}
        \cup {payload \in OfferingConfiguredPayloads :
                  "identifiers" \notin DOMAIN payload}
        \cup {payload \in FinalizedPayloads :
                  "transaction_hash" \notin DOMAIN payload}

\* C16: from every reachable store, a payload of a registered type that lacks
\* its required key (investor, identifiers.internal_asset_id, transaction_hash
\* for Finalized) is answered with the failure response, and a well-formed
\* event sent after it is applied as it would have been before it.
C16_MalformedEventsFail ==
    \A payload \in MalformedPayloads :
        \A failed \in {receive_event(Store, payload)} :
            /\ failed.status = 500
            /\ \A next \in OfferingConfiguredPayloads \ MalformedPayloads :
                   receive_event(failed.store, next) = receive_event(Store, next)

\* ---- adapters

\* C13: whatever the record, the mapping, the credentials and the provider's
\* behaviour, reconcile_settlement and each adapter end by returning a success
\* flag with a reason exactly when the flag is false; no exception leaves them.
C13_AdaptersNeverRaise ==
    verdict.done =>
        /\ ~verdict.raised
        /\ verdict.success = (verdict.error = None)

\* An adapter called directly met a transport error after sending its request
\* and returned a failure.
C13_Witness ==
    /\ verdict.done
    /\ call.entry \in CSDSystem
    /\ call.provider.raises
    /\ verdict.requests = 1
    /\ ~verdict.success /\ ~verdict.raised

\* The outcome an adapter returns when its system has no credentials.
NotConfigured(system) ==
    Some(<<CASE system = "CLEARSTREAM" -> "Clearstream credentials not configured"
             [] system = "EUROCLEAR" -> "Euroclear credentials not configured"
             [] system = "DTCC" -> "DTCC credentials not configured"
             [] system = "DPO_GLOBAL" -> "DPO Global credentials not configured",
           0>>)

\* C14: when the credentials of the provider whose adapter runs are missing,
\* the verification ends with that provider's not-configured outcome and has
\* issued no request, whether the adapter is called directly or through
\* reconcile_settlement.
C14_NotConfiguredNoCall ==
    verdict.done =>
        \A system \in verdict.adapters :
            system \notin call.configured =>
                /\ ~verdict.success
                /\ verdict.error = NotConfigured(system)
                /\ verdict.requests = 0

\* reconcile_settlement routed a whole record to the Euroclear adapter while
\* only Euroclear's credentials were missing and the provider would have
\* confirmed the settlement.
C14_Witness ==
    /\ verdict.done
    /\ call.entry = "reconcile_settlement"
    /\ verdict.adapters = {"EUROCLEAR"}
    /\ call.configured = CSDSystem \ {"EUROCLEAR"}
    /\ call.provider = Response(200, Some([matched |-> TRUE]))
    /\ verdict.error = NotConfigured("EUROCLEAR")
    /\ verdict.requests = 0

\* The number a unit count or a reported quantity stands for.
Count(value) ==
    IF value[1] = "int" THEN value[2]
    ELSE CASE value[2] = "0" -> 0 [] value[2] = "99" -> 99
           [] value[2] = "100" -> 100 [] value[2] = "101" -> 101

\* The adapter got as far as a response with a JSON body: credentials present,
\* every attribute it reads present, no transport error.
Answered(system) ==
    /\ verdict.done
    /\ call.entry = system
    /\ system \in call.configured
    /\ {"external_ref", "units", "settlement_date", "investor_address"}
           \subseteq DOMAIN call.record
    /\ {"csd_security_id", "metadata"} \subseteq DOMAIN call.mapping
    /\ ~call.provider.raises
    /\ call.provider.json # None

\* C15: on a 200 response the Clearstream adapter succeeds exactly when the body
\* reports a quantity equal to the record's unit count, and otherwise returns
\* the unit mismatch, for every unit count a SettlementRecord can hold.
C15_QuantityCheck ==
    (Answered("CLEARSTREAM") /\ call.provider.status_code = 200) =>
        LET csd_data == Value(call.provider.json)
            equal == /\ "quantity" \in DOMAIN csd_data
                     /\ Count(csd_data["quantity"]) = Count(call.record["units"])
        IN  /\ verdict.success = equal
            /\ ~equal => verdict.error = Some(<<"Unit mismatch", 0>>)

\* The adapter of a system, applied to the arguments of the call.
AdapterOutcome(system) ==
    CASE system = "CLEARSTREAM" ->
             _reconcile_clearstream(call.record, call.mapping, call.configured,
                                    call.provider)
      [] system = "EUROCLEAR" ->
             _reconcile_euroclear(call.record, call.mapping, call.configured,
                                  call.provider)
      [] system = "DTCC" ->
             _reconcile_dtcc(call.record, call.mapping, call.configured,
                             call.provider)
      [] system = "DPO_GLOBAL" ->
             _reconcile_dpo_global(call.record, call.mapping, call.configured,
                                   call.provider)

\* reconcile_settlement got as far as choosing the adapter.
Routed ==
    /\ verdict.done
    /\ call.entry = "reconcile_settlement"
    /\ "csd_system" \in DOMAIN call.mapping
    /\ {"external_ref", "units"} \subseteq DOMAIN call.record

\* The outcome reconcile_settlement returns for a system it has no adapter for.
Unsupported(system) == Some(<<"Unsupported CSD system: " \o system, 0>>)

\* reconcile_settlement calls the adapter of the declared system, no other, and
\* returns what it returned; for another system it calls none, sends nothing
\* and returns the unsupported outcome.
RoutedToDeclared ==
    Routed =>
        LET system == call.mapping["csd_system"]
        IN  IF system \in CSDSystem
            THEN verdict = [done |-> TRUE, adapters |-> {system}]
                               @@ AdapterOutcome(system)
            ELSE /\ verdict.adapters = {}
                 /\ verdict.requests = 0
                 /\ ~verdict.success
                 /\ verdict.error = Unsupported(system)

\* No outcome of an adapter that ran is an unsupported outcome.
UnsupportedDistinct ==
    (verdict.done /\ verdict.adapters # {}) =>
        \A mapping \in VerifyMappings :
            "csd_system" \in DOMAIN mapping =>
                verdict.error # Unsupported(mapping["csd_system"])

\* C17: reconcile_settlement calls exactly the adapter of the mapping's declared
\* system; for any other system it calls none and returns an unsupported
\* outcome that no mismatch, provider-unavailable or not-configured outcome of
\* an adapter equals.
C17_ProviderRouting == RoutedToDeclared /\ UnsupportedDistinct

\* The adapters that send a request and classify the response.
Classifying == {"CLEARSTREAM", "EUROCLEAR", "DPO_GLOBAL"}

\* The mismatch outcomes of an adapter: the result of its check was negative.
Mismatch(system) ==
    CASE system = "CLEARSTREAM" -> {Some(<<"Unit mismatch", 0>>)}
      [] system = "EUROCLEAR" -> {Some(<<"Euroclear mismatch", 0>>)}
      [] system = "DPO_GLOBAL" ->
             {Some(<<text, 0>>) : text \in ProviderTexts \cup {"Verification failed"}}

\* The outcome of an adapter for a response it does not check.
ApiError(system, status_code) ==
    Some(<<CASE system = "CLEARSTREAM" -> "Clearstream API error"
             [] system = "EUROCLEAR" -> "Euroclear API error"
             [] system = "DPO_GLOBAL" -> "DPO Global API error",
           status_code>>)

\* C19: for every status code, an adapter that received a response applies its
\* check when the status is 2xx, ending in success or in its mismatch, and
\* returns the API error carrying the status when it is not 2xx.
C19_StatusClassification ==
    \A system \in Classifying :
        Answered(system) =>
            IF call.provider.status_code \in 200..299
            THEN verdict.success \/ verdict.error \in Mismatch(system)
            ELSE verdict.error = ApiError(system, call.provider.status_code)

\* An adapter was called with its credentials configured and with every
\* attribute it reads present.
Verifying(system) ==
    /\ verdict.done
    /\ call.entry = system
    /\ system \in call.configured
    /\ {"external_ref", "units", "settlement_date", "investor_address"}
           \subseteq DOMAIN call.record
    /\ {"csd_security_id", "metadata"} \subseteq DOMAIN call.mapping

\* C20: each adapter with its credentials configured sends exactly one request
\* in one verification, and returns success only when a response came back and
\* had a body to check.
C20_OneRequestPerVerification ==
    \A system \in CSDSystem :
        Verifying(system) =>
            /\ verdict.requests = 1
            /\ verdict.success =>
                   ~call.provider.raises /\ call.provider.json # None

\* ---- concurrent upserts

\* The store after the two events one after the other.
Serial(first, second) ==
    handle_offering_configured(
        handle_offering_configured(EmptyStore, first).store, second).store

\* C18: when both requests are done, the store holds one Identifier row and one
\* Offering row for the id, and its rows are those of the two events applied in
\* one of the two orders.
C18_ConcurrentUpsertsSerializable ==
    (\A i \in DOMAIN inflight : inflight[i].pc = "done") =>
        \/ inflight = <<>>
        \/ /\ Len(identifiers) <= 1 /\ Len(offerings) <= 1
           /\ Store \in {Serial(inflight[1].payload, inflight[2].payload),
                         Serial(inflight[2].payload, inflight[1].payload)}

\* The rows of a table keep their primary keys and the value of the key column.
RowsKept(before, after, key) ==
    \A pk \in DOMAIN before :
        pk \in DOMAIN after /\ after[pk][key] = before[pk][key]

\* The rows of a fact table are still there with every field as it was.
FactsKept(before, after) ==
    /\ Len(after) >= Len(before)
    /\ SubSeq(after, 1, Len(before)) = before

OnePerAsset(table) ==
    \A pk, other \in DOMAIN table :
        table[pk].internal_asset_id = table[other].internal_asset_id => pk = other

\* C22: in every reachable store each Offering references an existing Identifier
\* of the same internal_asset_id, no two Offerings and no two Identifiers share
\* an internal_asset_id, and a UnitsIssued event, which may add an Identifier,
\* leaves every existing Identifier row as it is.
C22_OfferingOwnsIdentifier ==
    /\ \A pk \in DOMAIN offerings :
           /\ offerings[pk].identifier \in DOMAIN identifiers
           /\ identifiers[offerings[pk].identifier].internal_asset_id
                  = offerings[pk].internal_asset_id
    /\ OnePerAsset(offerings)
    /\ OnePerAsset(identifiers)
    /\ \A payload \in UnitsIssuedPayloads(Wallets) :
           FactsKept(identifiers, receive_event(Store, payload).store.identifiers)

\* Two Offerings, one of them referencing an Identifier stored under another
\* primary key than its own, and an Identifier that a UnitsIssued event created
\* and that a later UnitsIssued event of the same asset finds.
C22_Witness ==
    /\ Len(offerings) = 2
    /\ \E pk \in DOMAIN offerings : offerings[pk].identifier # pk
    /\ \E pk \in DOMAIN units_issued :
           /\ units_issued[pk].identifier # None
           /\ \E payload \in UnitsIssuedPayloads(Wallets) :
                  /\ Get(GetDefault(payload, "identifiers", EmptyDict),
                         "internal_asset_id")
                         = Some(identifiers[Value(units_issued[pk].identifier)]
                                    .internal_asset_id)
                  /\ receive_event(Store, payload).status = 200

\* The payloads of the handlers that run more than one statement.
MultiStatementPayloads ==
    OfferingConfiguredPayloads \cup CommitmentRecordedPayloads(Wallets)
        \cup UnitsIssuedPayloads(Wallets) \cup SettlementRecordedPayloads(Wallets)

\* C23: from every reachable store, an event whose handler raises (the request
\* is answered 500) leaves all six tables as they were before the event.
C23_FailedEventLeavesStore ==
    \A payload \in MultiStatementPayloads :
        \A applied \in {receive_event(Store, payload)} :
            applied.status = 500 => applied.store = Store

====
